---------------------------- MODULE Spec2Model ----------------------------
(***************************************************************************)
(* A model of the tray to-do list manager.                                 *)
(*                                                                         *)
(* The repository holds three builds of the program:                       *)
(*   "single"   src/main.go 1-425      weighted truncation, single-instance *)
(*                                    guard over a unix socket             *)
(*   "weighted" src/unnamed/part_000  weighted truncation, no guard        *)
(*   "simple"   src/main.go 427-623   rune-count limits, no guard          *)
(*                                                                         *)
(* A text is a sequence of runes; a rune is named by a string.  The file   *)
(* todo.json is a sequence of runes as well.                               *)
(***************************************************************************)
EXTENDS Integers, Sequences, FiniteSets, TLC

(***************************************************************************)
(* Bounds of the model.                                                    *)
(***************************************************************************)
\* processes that can be launched
NumProcs == 3
\* longest to-do list a run builds up
MaxTodos == 3
\* pending deferred UI calls (fyne.Do from a goroutine) per process
MaxQueue == 1
\* longest input of the pure truncation functions
MaxTruncLen == 4
\* largest budget handed to the pure truncation functions
MaxBudget == 5

(***************************************************************************)
(* Program constants.                                                      *)
(***************************************************************************)
maxWeight == 40
maxShowWeightSingle == 40
maxShowWeightPlain == 20
maxLen == 50
showLen == 20

(***************************************************************************)
(* Runes.                                                                  *)
(***************************************************************************)
\* one CJK ideograph (unicode.Is(unicode.Han, r) holds of it)
HanRune == "U+4E2D"
HanRunes == {HanRune}
\* U+2026, the ellipsis glyph
Ellipsis == "U+2026"
Quote == "\""
Backslash == "\\"
Newline == "\n"

Last(s) == s[Len(s)]
Front(s) == SubSeq(s, 1, Len(s) - 1)

RECURSIVE Fill(_, _)
Fill(r, n) == IF n <= 0 THEN <<>> ELSE <<r>> \o Fill(r, n - 1)

RECURSIVE SeqsUpTo(_, _)
SeqsUpTo(S, n) ==
    IF n = 0 THEN {<<>>}
    ELSE LET shorter == SeqsUpTo(S, n - 1)
         IN shorter \cup {Append(s, x) : s \in shorter, x \in S}

IsPrefix(p, s) == Len(p) <= Len(s) /\ SubSeq(s, 1, Len(p)) = p

(***************************************************************************)
(* Weighted measure and truncation.                                        *)
(***************************************************************************)
itemWeight(r) == IF r \in HanRunes THEN 2 ELSE 1

RECURSIVE getWeightFrom(_, _, _)
getWeightFrom(s, i, w) ==
    IF i > Len(s) THEN w ELSE getWeightFrom(s, i + 1, w + itemWeight(s[i]))

getWeight(s) == getWeightFrom(s, 1, 0)

\* the loop of truncateByWeight: stops before the first rune that does not fit
RECURSIVE truncateLoop(_, _, _, _, _)
truncateLoop(s, maxW, i, currW, res) ==
    IF i > Len(s) THEN res
    ELSE IF currW + itemWeight(s[i]) > maxW THEN res
    ELSE truncateLoop(s, maxW, i + 1, currW + itemWeight(s[i]), Append(res, s[i]))

\* a truncation that counts every rune as 1
RECURSIVE truncateLoopUnweighted(_, _, _, _, _)
truncateLoopUnweighted(s, maxW, i, currW, res) ==
    IF i > Len(s) THEN res
    ELSE IF currW + 1 > maxW THEN res
    ELSE truncateLoopUnweighted(s, maxW, i + 1, currW + 1, Append(res, s[i]))

truncateByWeightUnweighted(s, maxW) == truncateLoopUnweighted(s, maxW, 1, 0, <<>>)

truncateByWeight(s, maxW) == truncateLoop(s, maxW, 1, 0, <<>>)

\* the loop of truncateByWeightWithEllipsis, a copy of the one above in the source
RECURSIVE ellipsisLoop(_, _, _, _, _)
ellipsisLoop(s, maxW, i, currW, res) ==
    IF i > Len(s) THEN res
    ELSE IF currW + itemWeight(s[i]) > maxW THEN res
    ELSE ellipsisLoop(s, maxW, i + 1, currW + itemWeight(s[i]), Append(res, s[i]))

\* a variant that makes room for the ellipsis inside the budget
truncateByWeightWithEllipsisRoom(s, maxW) ==
    IF getWeight(s) <= maxW THEN s
    ELSE Append(ellipsisLoop(s, maxW - 1, 1, 0, <<>>), Ellipsis)

truncateByWeightWithEllipsis(s, maxW) ==
    IF getWeight(s) <= maxW THEN s
    ELSE Append(ellipsisLoop(s, maxW, 1, 0, <<>>), Ellipsis)

\* the simple build's label shortening, by rune count
shorten(s, max) ==
    IF Len(s) > max THEN Append(SubSeq(s, 1, max), Ellipsis) ELSE s

(***************************************************************************)
(* The persisted file: json.MarshalIndent(todos, "", "  ") and             *)
(* json.Unmarshal(data, &todos), rune by rune.                             *)
(***************************************************************************)
Todo(text) == [Text |-> text]

RECURSIVE Concat(_)
Concat(ss) == IF ss = <<>> THEN <<>> ELSE Head(ss) \o Concat(Tail(ss))

\* encoding/json writes a string's runes, escaping the quote, the backslash,
\* control characters and (HTML escaping is on in Marshal) <, > and &
escapeRune(r) ==
    CASE r = Quote -> <<Backslash, Quote>>
      [] r = Backslash -> <<Backslash, Backslash>>
      [] r = Newline -> <<Backslash, "n">>
      [] r = "<" -> <<Backslash, "u", "0", "0", "3", "c">>
      [] r = ">" -> <<Backslash, "u", "0", "0", "3", "e">>
      [] r = "&" -> <<Backslash, "u", "0", "0", "2", "6">>
      [] OTHER -> <<r>>

\* an encoder that writes every rune as it is
encodeStringRaw(s) == <<Quote>> \o s \o <<Quote>>

encodeString(s) ==
    <<Quote>> \o Concat([i \in 1..Len(s) |-> escapeRune(s[i])]) \o <<Quote>>

KeyText == <<"t", "e", "x", "t">>

\* one element of the array, indented by two spaces
encodeTodo(t) ==
    <<" ", " ", "{", Newline>>
    \o <<" ", " ", " ", " ">> \o encodeString(KeyText) \o <<":", " ">>
    \o encodeString(t.Text) \o <<Newline>>
    \o <<" ", " ", "}">>

RECURSIVE encodeElems(_, _)
encodeElems(todos, i) ==
    IF i > Len(todos) THEN <<>>
    ELSE encodeTodo(todos[i])
         \o (IF i < Len(todos) THEN <<",", Newline>> ELSE <<Newline>>)
         \o encodeElems(todos, i + 1)

\* saveTodos is only ever handed a non-nil slice (after an append, or after a
\* removal from a non-empty slice), so an empty list is written as []
MarshalIndent(todos) ==
    IF Len(todos) = 0 THEN <<"[", "]">>
    ELSE <<"[", Newline>> \o encodeElems(todos, 1) \o <<"]">>

isSpace(r) == r \in {" ", Newline, "\t", "\r"}

RECURSIVE skipSpace(_, _)
skipSpace(d, i) ==
    IF i <= Len(d) /\ isSpace(d[i]) THEN skipSpace(d, i + 1) ELSE i

At(d, i) == IF i >= 1 /\ i <= Len(d) THEN d[i] ELSE "EOF"

Fail == [ok |-> FALSE, val |-> <<>>, pos |-> 0]

\* the code points the encoder writes as \uXXXX; any other one is decoded to
\* a rune the model does not tell apart
hexRune(h) ==
    CASE h = <<"0", "0", "3", "c">> -> "<"
      [] h = <<"0", "0", "3", "e">> -> ">"
      [] h = <<"0", "0", "2", "6">> -> "&"
      [] OTHER -> "U+XXXX"

HexDigits == {"0", "1", "2", "3", "4", "5", "6", "7", "8", "9",
              "a", "b", "c", "d", "e", "f", "A", "B", "C", "D", "E", "F"}

\* the runes of a string literal after its opening quote
RECURSIVE scanStringBody(_, _, _)
scanStringBody(d, i, acc) ==
    LET r == At(d, i) IN
    CASE r = "EOF" -> Fail
      [] r = Quote -> [ok |-> TRUE, val |-> acc, pos |-> i + 1]
      [] r \in {Newline, "\t", "\r"} -> Fail
      [] r = Backslash ->
            LET e == At(d, i + 1) IN
            CASE e \in {Quote, Backslash, "/"} ->
                    scanStringBody(d, i + 2, Append(acc, e))
              [] e = "n" -> scanStringBody(d, i + 2, Append(acc, Newline))
              [] e = "t" -> scanStringBody(d, i + 2, Append(acc, "\t"))
              [] e = "r" -> scanStringBody(d, i + 2, Append(acc, "\r"))
              [] e = "u" ->
                    IF i + 5 <= Len(d)
                       /\ \A k \in (i + 2)..(i + 5) : d[k] \in HexDigits
                    THEN scanStringBody(d, i + 6,
                            Append(acc, hexRune(SubSeq(d, i + 2, i + 5))))
                    ELSE Fail
              [] OTHER -> Fail
      [] OTHER -> scanStringBody(d, i + 1, Append(acc, r))

scanString(d, i) ==
    IF At(d, i) = Quote THEN scanStringBody(d, i + 1, <<>>) ELSE Fail

\* the members of an object after "{": string keys with string values; the
\* value of the key "text" becomes Todo.Text, other keys are skipped
RECURSIVE scanMembers(_, _, _)
scanMembers(d, i, text) ==
    LET k == scanString(d, skipSpace(d, i)) IN
    IF ~k.ok THEN Fail
    ELSE LET c == skipSpace(d, k.pos) IN
         IF At(d, c) # ":" THEN Fail
         ELSE LET v == scanString(d, skipSpace(d, c + 1)) IN
              IF ~v.ok THEN Fail
              ELSE LET t == IF k.val = KeyText THEN v.val ELSE text
                       e == skipSpace(d, v.pos)
                   IN CASE At(d, e) = "," -> scanMembers(d, e + 1, t)
                        [] At(d, e) = "}" ->
                              [ok |-> TRUE, val |-> Todo(t), pos |-> e + 1]
                        [] OTHER -> Fail

scanObject(d, i) ==
    IF At(d, i) # "{" THEN Fail
    ELSE LET j == skipSpace(d, i + 1) IN
         IF At(d, j) = "}" THEN [ok |-> TRUE, val |-> Todo(<<>>), pos |-> j + 1]
         ELSE scanMembers(d, j, <<>>)

\* the elements of an array after "["
RECURSIVE scanElems(_, _, _)
scanElems(d, i, acc) ==
    LET o == scanObject(d, skipSpace(d, i)) IN
    IF ~o.ok THEN Fail
    ELSE LET e == skipSpace(d, o.pos) IN
         CASE At(d, e) = "," -> scanElems(d, e + 1, Append(acc, o.val))
           [] At(d, e) = "]" ->
                 [ok |-> TRUE, val |-> Append(acc, o.val), pos |-> e + 1]
           [] OTHER -> Fail

scanArray(d, i) ==
    IF At(d, i) # "[" THEN Fail
    ELSE LET j == skipSpace(d, i + 1) IN
         IF At(d, j) = "]" THEN [ok |-> TRUE, val |-> <<>>, pos |-> j + 1]
         ELSE scanElems(d, j, <<>>)

\* json.Unmarshal(data, &todos): ok is "err == nil", val is what todos holds
\* afterwards (a syntax error leaves the nil slice untouched)
Unmarshal(d) ==
    LET i == skipSpace(d, 1)
        v == IF <<At(d, i), At(d, i + 1), At(d, i + 2), At(d, i + 3)>>
                   = <<"n", "u", "l", "l">>
             THEN [ok |-> TRUE, val |-> <<>>, pos |-> i + 4]
             ELSE scanArray(d, i)
    IN IF v.ok /\ skipSpace(d, v.pos) = Len(d) + 1 THEN v ELSE Fail

(***************************************************************************)
(* The file on disk: missing, present but unreadable, or its runes.        *)
(***************************************************************************)
NoFile == [kind |-> "missing", data |-> <<>>]
Unreadable == [kind |-> "unreadable", data |-> <<>>]
FileOf(d) == [kind |-> "data", data |-> d]

loadTodos(f, build) ==
    IF f.kind = "missing" THEN <<>>
    ELSE IF f.kind = "unreadable" THEN <<>>
    ELSE LET r == Unmarshal(f.data) IN
         IF build = "single" /\ ~r.ok THEN <<>> ELSE r.val

\* what os.WriteFile leaves behind: the data, the old file (the open
\* failed), or a file cut to nothing (the write failed after O_TRUNC)
WriteOutcomes == {"ok", "openfail", "partial"}

saveTodos(f, todos, outcome) ==
    CASE outcome = "ok" -> FileOf(MarshalIndent(todos))
      [] outcome = "openfail" -> f
      [] OTHER -> FileOf(<<>>)

(***************************************************************************)
(* State.                                                                  *)
(***************************************************************************)
VARIABLES
    build,      \* which of the three builds runs
    file,       \* todo.json
    sockFile,   \* who bound the file at socketPath (NoSock: no such file)
    conn,       \* per client process: its connection to a listener
    pc,         \* per process: where its main goroutine is
    lpc,        \* per process: where its listener goroutine is
    role,       \* per process: outcome of runSingleInstanceCheck
    exitCode,   \* per process: exit status once exited
    uiQueue,    \* per process: calls handed to fyne.Do from other goroutines
    showWindow, \* per process: the package variable showWindow is set
    winShown,   \* per process: the entry window is visible
    todos,      \* per process: the in-memory list
    entry,      \* per process: text of the entry field
    leftTips,   \* per process: the remaining-weight counter shown
    rightTips,  \* per process: the status message
    timers,     \* per process: sleeping goroutines of showSuccess
    menu,       \* per process: the tray menu
    hist,       \* per process: what it has done to the file and the socket
    lastOp,     \* the UI handler the last step ran, if it ran one
    trunc       \* inputs and results of the truncation functions on their own

vars == <<build, file, sockFile, conn, pc, lpc, role, exitCode, uiQueue,
          showWindow, winShown, todos, entry, leftTips, rightTips, timers,
          menu, hist, lastOp, trunc>>

Procs == 1..NumProcs
Builds == {"single", "weighted", "simple"}
Weighted(b) == b \in {"single", "weighted"}

NoSock == 0
\* a socket file left behind by a process that is gone
StaleSock == -1

NoConn == [st |-> "none", srv |-> 0, buf |-> <<>>, copen |-> FALSE, got |-> 0]
NoHist == [read |-> FALSE, wrote |-> FALSE, removed |-> FALSE,
           listened |-> FALSE, sent |-> 0]
NoOp == [name |-> "none", p |-> 0, row |-> 0, text |-> <<>>, outcome |-> "none"]
Op(n, p, i, t, o) == [name |-> n, p |-> p, row |-> i, text |-> t, outcome |-> o]
NoTrunc == [pc |-> "off", s |-> <<>>, m |-> 0, out |-> <<>>, again |-> <<>>,
            ell |-> <<>>]

Alive(p) == pc[p] \notin {"idle", "exited"}
Listening(p) == p \in Procs /\ Alive(p) /\ lpc[p] = "accept"

(***************************************************************************)
(* The tray menu.                                                          *)
(***************************************************************************)
maxShowWeight(b) == IF b = "single" THEN maxShowWeightSingle ELSE maxShowWeightPlain

CheckBox == <<"U+2610", " ">>

rowLabel(b, text) ==
    IF b = "simple" THEN CheckBox \o shorten(text, showLen)
    ELSE CheckBox \o truncateByWeightWithEllipsis(text, maxShowWeight(b))

Item(k, l, t) == [kind |-> k, label |-> l, text |-> t]

\* a menu that keeps the placeholder row above the to-do rows
rebuildTrayKeepPlaceholder(b, ts) ==
    <<Item("add", <<>>, <<>>), Item("separator", <<>>, <<>>)>>
    \o <<Item("placeholder", <<>>, <<>>)>>
    \o [i \in 1..Len(ts) |-> Item("todo", rowLabel(b, ts[i].Text), ts[i].Text)]
    \o <<Item("separator", <<>>, <<>>), Item("quit", <<>>, <<>>)>>

rebuildTray(b, ts) ==
    <<Item("add", <<>>, <<>>), Item("separator", <<>>, <<>>)>>
    \o (IF Len(ts) = 0 THEN <<Item("placeholder", <<>>, <<>>)>>
        ELSE [i \in 1..Len(ts) |-> Item("todo", rowLabel(b, ts[i].Text), ts[i].Text)])
    \o <<Item("separator", <<>>, <<>>), Item("quit", <<>>, <<>>)>>

(***************************************************************************)
(* The entry field.                                                        *)
(***************************************************************************)
\* entry.OnChanged(s) in the weighted builds; entry.SetText calls it again.
\* The result is the text the entry holds and the counter shown.
RECURSIVE OnChanged(_, _)
OnChanged(s, left) ==
    IF getWeight(s) > maxWeight
    THEN OnChanged(truncateByWeight(s, maxWeight), left)
    ELSE [text |-> s, left |-> maxWeight - getWeight(s)]

\* a change handler that only counts
entryEditedNoClamp(b, s, left) ==
    IF Weighted(b) THEN [text |-> s, left |-> maxWeight - getWeight(s)]
    ELSE [text |-> s, left |-> left]

\* the entry's text becomes s (typing, pasting, deleting)
entryEdited(b, s, left) ==
    IF Weighted(b) THEN OnChanged(s, left) ELSE [text |-> s, left |-> left]

\* the loop of a row's delete closure
RECURSIVE removeLoop(_, _, _)
removeLoop(ts, itemText, idx) ==
    IF idx > Len(ts) THEN ts
    ELSE IF ts[idx].Text = itemText
         THEN SubSeq(ts, 1, idx - 1) \o SubSeq(ts, idx + 1, Len(ts))
         ELSE removeLoop(ts, itemText, idx + 1)

\* a delete closure without the break
removeAllMatches(ts, itemText) == SelectSeq(ts, LAMBDA t : t.Text # itemText)

removeMatch(ts, itemText) == removeLoop(ts, itemText, 1)

(***************************************************************************)
(* The presentation shell: handlers that run on the UI thread of a process *)
(* whose main goroutine is inside a.Run().                                 *)
(***************************************************************************)
Running(p) == pc[p] = "running"

\* the "add new" row of the tray menu
MenuAddNew(p) ==
    /\ Running(p)
    /\ ~winShown[p]
    /\ winShown' = [winShown EXCEPT ![p] = TRUE]
    /\ lastOp' = NoOp
    /\ UNCHANGED <<build, file, sockFile, conn, pc, lpc, role, exitCode, uiQueue,
                   showWindow, todos, entry, leftTips, rightTips, timers, menu,
                   hist, trunc>>

\* the window's close button: SetCloseIntercept hides the window
CloseWindow(p) ==
    /\ Running(p)
    /\ winShown[p]
    /\ winShown' = [winShown EXCEPT ![p] = FALSE]
    /\ lastOp' = NoOp
    /\ UNCHANGED <<build, file, sockFile, conn, pc, lpc, role, exitCode, uiQueue,
                   showWindow, todos, entry, leftTips, rightTips, timers, menu,
                   hist, trunc>>

\* the user changes the entry's text to s; OnChanged runs
EntryEdit(p, s) ==
    /\ Running(p)
    /\ winShown[p]
    /\ s # entry[p]
    /\ LET r == entryEdited(build, s, leftTips[p]) IN
         /\ entry' = [entry EXCEPT ![p] = r.text]
         /\ leftTips' = [leftTips EXCEPT ![p] = r.left]
    /\ lastOp' = NoOp
    /\ UNCHANGED <<build, file, sockFile, conn, pc, lpc, role, exitCode, uiQueue,
                   showWindow, winShown, todos, rightTips, timers, menu, hist,
                   trunc>>

\* the body shared by the three builds' OnSubmitted once the text is accepted:
\* append, save, clear the entry, rebuild the tray
submitAccepted(p, text, outcome) ==
    LET ts == Append(todos[p], Todo(text)) IN
    /\ todos' = [todos EXCEPT ![p] = ts]
    /\ file' = saveTodos(file, ts, outcome)
    /\ hist' = [hist EXCEPT ![p].wrote = TRUE]
    /\ entry' = [entry EXCEPT ![p] = <<>>]
    /\ leftTips' = [leftTips EXCEPT
                      ![p] = entryEdited(build, <<>>, leftTips[p]).left]
    /\ menu' = [menu EXCEPT ![p] = rebuildTray(build, ts)]

\* showSuccess in the weighted builds: the message, and a goroutine that
\* sleeps 2 s before it reverts it
showSuccess(p) ==
    IF Weighted(build)
    THEN /\ rightTips' = [rightTips EXCEPT ![p] = "submitted"]
         /\ timers' = [timers EXCEPT ![p] = @ + 1]
    ELSE UNCHANGED <<rightTips, timers>>

\* an OnSubmitted without the check for empty text
OnSubmittedNoEmptyCheck(p, text, outcome) ==
    /\ submitAccepted(p, text, outcome)
    /\ showSuccess(p)

\* entry.OnSubmitted(text)
OnSubmitted(p, text, outcome) ==
    IF text = <<>>
    THEN UNCHANGED <<todos, file, hist, entry, leftTips, menu, rightTips, timers>>
    ELSE IF build = "simple" /\ Len(text) > maxLen
    THEN /\ entry' = [entry EXCEPT ![p] = <<>>]
         /\ UNCHANGED <<todos, file, hist, leftTips, menu, rightTips, timers>>
    ELSE /\ submitAccepted(p, text, outcome)
         /\ showSuccess(p)

\* the bounds of the model: a submit that adds keeps the list and the pending
\* deferred calls within them
submitFits(p) ==
    \/ entry[p] = <<>>
    \/ build = "simple" /\ Len(entry[p]) > maxLen
    \/ /\ Len(todos[p]) < MaxTodos
       /\ Weighted(build) => Len(uiQueue[p]) + timers[p] < MaxQueue

\* the enter key in the entry field: OnSubmitted gets the entry's text
Submit(p, outcome) ==
    /\ Running(p)
    /\ winShown[p]
    /\ submitFits(p)
    /\ OnSubmitted(p, entry[p], outcome)
    /\ lastOp' = Op("submit", p, 0, entry[p], outcome)
    /\ UNCHANGED <<build, sockFile, conn, pc, lpc, role, exitCode, uiQueue,
                   showWindow, winShown, trunc>>

\* the closure of the to-do row at place i of the menu
deleteClosure(p, i, outcome) ==
    LET itemText == menu[p][i].text
        ts == removeMatch(todos[p], itemText)
    IN /\ todos' = [todos EXCEPT ![p] = ts]
       /\ file' = saveTodos(file, ts, outcome)
       /\ hist' = [hist EXCEPT ![p].wrote = TRUE]
       /\ menu' = [menu EXCEPT ![p] = rebuildTray(build, ts)]

\* a to-do row of the tray menu is activated
RowActivate(p, i, outcome) ==
    /\ Running(p)
    /\ i \in 1..Len(menu[p])
    /\ menu[p][i].kind = "todo"
    /\ deleteClosure(p, i, outcome)
    /\ lastOp' = Op("row", p, i, menu[p][i].text, outcome)
    /\ UNCHANGED <<build, sockFile, conn, pc, lpc, role, exitCode, uiQueue,
                   showWindow, winShown, entry, leftTips, rightTips, timers,
                   trunc>>

\* a showSuccess goroutine wakes up and hands the revert to fyne.Do
TimerFire(p) ==
    /\ Alive(p)
    /\ timers[p] > 0
    /\ timers' = [timers EXCEPT ![p] = @ - 1]
    /\ uiQueue' = [uiQueue EXCEPT ![p] = Append(@, "revert")]
    /\ lastOp' = NoOp
    /\ UNCHANGED <<build, file, sockFile, conn, pc, lpc, role, exitCode,
                   showWindow, winShown, todos, entry, leftTips, rightTips, menu,
                   hist, trunc>>

\* the UI thread runs the next call handed to fyne.Do
UIDispatch(p) ==
    /\ Running(p)
    /\ uiQueue[p] # <<>>
    /\ uiQueue' = [uiQueue EXCEPT ![p] = Tail(@)]
    /\ IF Head(uiQueue[p]) = "activate"
       THEN \* if showWindow != nil { showWindow() }
            /\ winShown' = [winShown EXCEPT ![p] = IF showWindow[p] THEN TRUE ELSE @]
            /\ UNCHANGED rightTips
       ELSE /\ rightTips' = [rightTips EXCEPT ![p] = "hint"]
            /\ UNCHANGED winShown
    /\ lastOp' = Op(Head(uiQueue[p]), p, 0, <<>>, "none")
    /\ UNCHANGED <<build, file, sockFile, conn, pc, lpc, role, exitCode,
                   showWindow, todos, entry, leftTips, timers, menu, hist, trunc>>

(***************************************************************************)
(* Start-up of a process and the single-instance guard.                    *)
(***************************************************************************)
\* the memory of a process that has exited is gone
memoryGone(p) ==
    /\ uiQueue' = [uiQueue EXCEPT ![p] = <<>>]
    /\ showWindow' = [showWindow EXCEPT ![p] = FALSE]
    /\ winShown' = [winShown EXCEPT ![p] = FALSE]
    /\ todos' = [todos EXCEPT ![p] = <<>>]
    /\ entry' = [entry EXCEPT ![p] = <<>>]
    /\ leftTips' = [leftTips EXCEPT ![p] = maxWeight]
    /\ rightTips' = [rightTips EXCEPT ![p] = "hint"]
    /\ timers' = [timers EXCEPT ![p] = 0]
    /\ menu' = [menu EXCEPT ![p] = <<>>]

memoryKept ==
    UNCHANGED <<uiQueue, showWindow, winShown, todos, entry, leftTips,
                rightTips, timers, menu>>

\* the program is started; the single build probes the socket first
Launch(p) ==
    /\ pc[p] = "idle"
    /\ pc' = [pc EXCEPT ![p] = IF build = "single" THEN "dial" ELSE "load"]
    /\ lastOp' = NoOp
    /\ UNCHANGED <<build, file, sockFile, conn, lpc, role, exitCode, uiQueue,
                   showWindow, winShown, todos, entry, leftTips, rightTips,
                   timers, menu, hist, trunc>>

\* net.Dial("unix", socketPath) succeeds iff a listener is bound to the file
\* at the path
dialSucceeds == sockFile # NoSock /\ Listening(sockFile)

\* a guard that starts the listener goroutine whatever the probe found
DialSpawnsListener(p) ==
    /\ pc[p] = "dial"
    /\ IF dialSucceeds
       THEN /\ conn' = [conn EXCEPT ![p] = [st |-> "backlog", srv |-> sockFile,
                                            buf |-> <<>>, copen |-> TRUE,
                                            got |-> 0]]
            /\ role' = [role EXCEPT ![p] = "secondary"]
            /\ pc' = [pc EXCEPT ![p] = "write"]
       ELSE /\ role' = [role EXCEPT ![p] = "primary"]
            /\ pc' = [pc EXCEPT ![p] = "load"]
            /\ UNCHANGED conn
    /\ lpc' = [lpc EXCEPT ![p] = "remove"]
    /\ lastOp' = NoOp
    /\ UNCHANGED <<build, file, sockFile, exitCode, uiQueue, showWindow,
                   winShown, todos, entry, leftTips, rightTips, timers, menu,
                   hist, trunc>>

\* runSingleInstanceCheck up to its first return or go statement
Dial(p) ==
    /\ pc[p] = "dial"
    /\ IF dialSucceeds
       THEN /\ conn' = [conn EXCEPT ![p] = [st |-> "backlog", srv |-> sockFile,
                                            buf |-> <<>>, copen |-> TRUE,
                                            got |-> 0]]
            /\ role' = [role EXCEPT ![p] = "secondary"]
            /\ pc' = [pc EXCEPT ![p] = "write"]
            /\ UNCHANGED lpc
       ELSE \* go func() { ... }(); return true, nil
            /\ role' = [role EXCEPT ![p] = "primary"]
            /\ lpc' = [lpc EXCEPT ![p] = "remove"]
            /\ pc' = [pc EXCEPT ![p] = "load"]
            /\ UNCHANGED conn
    /\ lastOp' = NoOp
    /\ UNCHANGED <<build, file, sockFile, exitCode, uiQueue, showWindow,
                   winShown, todos, entry, leftTips, rightTips, timers, menu,
                   hist, trunc>>

\* the bytes a second instance sends
ShowLine == <<"s", "h", "o", "w", Newline>>

\* the server end of a connection is gone once its process has exited
PeerGone(c) == ~Alive(conn[c].srv)

\* conn.Write("show\n"), the deferred conn.Close(), and main's exit: status 0
\* after a successful write, log.Fatalf (status 1) after a failed one
WriteShow(p) ==
    /\ pc[p] = "write"
    /\ IF PeerGone(p)
       THEN /\ conn' = [conn EXCEPT ![p].copen = FALSE]
            /\ exitCode' = [exitCode EXCEPT ![p] = 1]
            /\ UNCHANGED hist
       ELSE /\ conn' = [conn EXCEPT ![p].buf = @ \o ShowLine,
                                    ![p].copen = FALSE]
            /\ exitCode' = [exitCode EXCEPT ![p] = 0]
            /\ hist' = [hist EXCEPT ![p].sent = @ + 1]
    /\ pc' = [pc EXCEPT ![p] = "exited"]
    /\ lastOp' = NoOp
    /\ UNCHANGED <<build, file, sockFile, lpc, role, uiQueue, showWindow,
                   winShown, todos, entry, leftTips, rightTips, timers, menu,
                   trunc>>

\* a listener goroutine that goes to net.Listen without the os.Remove
ListenerRemoveSkipped(p) ==
    /\ Alive(p)
    /\ lpc[p] = "remove"
    /\ lpc' = [lpc EXCEPT ![p] = "listen"]
    /\ lastOp' = NoOp
    /\ UNCHANGED <<build, file, sockFile, conn, pc, role, exitCode, uiQueue,
                   showWindow, winShown, todos, entry, leftTips, rightTips,
                   timers, menu, hist, trunc>>

\* the listener goroutine: os.Remove(socketPath)
ListenerRemove(p) ==
    /\ Alive(p)
    /\ lpc[p] = "remove"
    /\ sockFile' = NoSock
    /\ lpc' = [lpc EXCEPT ![p] = "listen"]
    /\ hist' = [hist EXCEPT ![p].removed = TRUE]
    /\ lastOp' = NoOp
    /\ UNCHANGED <<build, file, conn, pc, role, exitCode, uiQueue, showWindow,
                   winShown, todos, entry, leftTips, rightTips, timers, menu,
                   trunc>>

\* a listener goroutine that only logs a failed bind and returns
ListenerListenLogsOnly(p) ==
    /\ Alive(p)
    /\ lpc[p] = "listen"
    /\ IF sockFile = NoSock
       THEN /\ sockFile' = p
            /\ lpc' = [lpc EXCEPT ![p] = "accept"]
            /\ hist' = [hist EXCEPT ![p].listened = TRUE]
       ELSE /\ lpc' = [lpc EXCEPT ![p] = "dead"]
            /\ UNCHANGED <<sockFile, hist>>
    /\ memoryKept
    /\ lastOp' = NoOp
    /\ UNCHANGED <<build, file, conn, pc, role, exitCode, trunc>>

\* the listener goroutine: net.Listen("unix", socketPath) creates the file, or
\* fails on a file that is there (log.Fatalf ends the process with status 1)
ListenerListen(p) ==
    /\ Alive(p)
    /\ lpc[p] = "listen"
    /\ IF sockFile = NoSock
       THEN /\ sockFile' = p
            /\ lpc' = [lpc EXCEPT ![p] = "accept"]
            /\ hist' = [hist EXCEPT ![p].listened = TRUE]
            /\ memoryKept
            /\ UNCHANGED <<pc, exitCode>>
       ELSE /\ pc' = [pc EXCEPT ![p] = "exited"]
            /\ exitCode' = [exitCode EXCEPT ![p] = 1]
            /\ lpc' = [lpc EXCEPT ![p] = "dead"]
            /\ memoryGone(p)
            /\ UNCHANGED <<sockFile, hist>>
    /\ lastOp' = NoOp
    /\ UNCHANGED <<build, file, conn, role, trunc>>

\* a listener that serves one connection at a time: the next Accept waits
\* for the handler of the last one
AcceptSerial(p, c) ==
    /\ Listening(p)
    /\ conn[c].st = "backlog"
    /\ conn[c].srv = p
    /\ \A d \in Procs : ~(conn[d].st = "handling" /\ conn[d].srv = p)
    /\ conn' = [conn EXCEPT ![c].st = "handling"]
    /\ lastOp' = NoOp
    /\ UNCHANGED <<build, file, sockFile, pc, lpc, role, exitCode, uiQueue,
                   showWindow, winShown, todos, entry, leftTips, rightTips,
                   timers, menu, hist, trunc>>

\* the accept loop: listener.Accept() and go handleSocketConnection(conn)
Accept(p, c) ==
    /\ Listening(p)
    /\ conn[c].st = "backlog"
    /\ conn[c].srv = p
    /\ conn' = [conn EXCEPT ![c].st = "handling"]
    /\ lastOp' = NoOp
    /\ UNCHANGED <<build, file, sockFile, pc, lpc, role, exitCode, uiQueue,
                   showWindow, winShown, todos, entry, leftTips, rightTips,
                   timers, menu, hist, trunc>>

HasLine(buf) == \E k \in 1..Len(buf) : buf[k] = Newline

\* reader.ReadString('\n'): the runes up to and with the first newline
RECURSIVE readLine(_, _)
readLine(buf, k) == IF buf[k] = Newline THEN SubSeq(buf, 1, k) ELSE readLine(buf, k + 1)

RECURSIVE trimLeft(_)
trimLeft(t) == IF t # <<>> /\ isSpace(Head(t)) THEN trimLeft(Tail(t)) ELSE t

RECURSIVE trimRight(_)
trimRight(t) == IF t # <<>> /\ isSpace(Last(t)) THEN trimRight(Front(t)) ELSE t

\* strings.TrimSpace
TrimSpace(t) == trimRight(trimLeft(t))

\* the message handleSocketConnection compares with "show"
message(buf) == TrimSpace(readLine(buf, 1))

\* a handler that takes every message that begins with "show"
isShowPrefix(buf) == IsPrefix(<<"s", "h", "o", "w">>, message(buf))

isShow(buf) == message(buf) = <<"s", "h", "o", "w">>

\* handleSocketConnection: ReadString returns a line, or an error once the
\* client has closed without one; "show" is handed to fyne.Do
Handle(c) ==
    /\ conn[c].st = "handling"
    /\ Alive(conn[c].srv)
    /\ LET p == conn[c].srv
           buf == conn[c].buf
       IN
       IF HasLine(buf)
       THEN /\ conn' = [conn EXCEPT ![c].st = "done",
                                    ![c].buf = SubSeq(buf, Len(readLine(buf, 1)) + 1, Len(buf)),
                                    ![c].got = IF isShow(buf) THEN @ + 1 ELSE @]
            /\ IF isShow(buf)
               THEN /\ Len(uiQueue[p]) + timers[p] < MaxQueue
                    /\ uiQueue' = [uiQueue EXCEPT ![p] = Append(@, "activate")]
               ELSE UNCHANGED uiQueue
       ELSE /\ ~conn[c].copen
            /\ conn' = [conn EXCEPT ![c].st = "done"]
            /\ UNCHANGED uiQueue
    /\ lastOp' = IF HasLine(conn[c].buf)
                 THEN Op("line", conn[c].srv, c, message(conn[c].buf), "none")
                 ELSE NoOp
    /\ UNCHANGED <<build, file, sockFile, pc, lpc, role, exitCode, showWindow,
                   winShown, todos, entry, leftTips, rightTips, timers, menu,
                   hist, trunc>>

\* Any local program can connect to the socket: what listener.Accept() hands
\* out and what reader.ReadString reads is whatever that peer does. A peer
\* connects, sends nothing, part of a line or a line, and closes or hangs.
ClientConnect(c) ==
    /\ pc[c] = "idle"
    /\ conn[c].st \in {"none", "done"}
    /\ dialSucceeds
    /\ conn' = [conn EXCEPT ![c] = [st |-> "backlog", srv |-> sockFile,
                                     buf |-> <<>>, copen |-> TRUE, got |-> 0]]
    /\ lastOp' = NoOp
    /\ UNCHANGED <<build, file, sockFile, pc, lpc, role, exitCode, uiQueue,
                   showWindow, winShown, todos, entry, leftTips, rightTips,
                   timers, menu, hist, trunc>>

ClientSend(c, bytes) ==
    /\ pc[c] = "idle"
    /\ conn[c].st \in {"backlog", "handling"}
    /\ conn[c].copen
    /\ conn[c].buf = <<>>
    /\ ~PeerGone(c)
    /\ conn' = [conn EXCEPT ![c].buf = bytes]
    /\ lastOp' = NoOp
    /\ UNCHANGED <<build, file, sockFile, pc, lpc, role, exitCode, uiQueue,
                   showWindow, winShown, todos, entry, leftTips, rightTips,
                   timers, menu, hist, trunc>>

ClientClose(c) ==
    /\ pc[c] = "idle"
    /\ conn[c].st \in {"backlog", "handling"}
    /\ conn[c].copen
    /\ conn' = [conn EXCEPT ![c].copen = FALSE]
    /\ lastOp' = NoOp
    /\ UNCHANGED <<build, file, sockFile, pc, lpc, role, exitCode, uiQueue,
                   showWindow, winShown, todos, entry, leftTips, rightTips,
                   timers, menu, hist, trunc>>

\* main after the guard: app.NewWithID and todos := loadTodos()
Load(p) ==
    /\ pc[p] = "load"
    /\ todos' = [todos EXCEPT ![p] = loadTodos(file, build)]
    /\ hist' = [hist EXCEPT ![p].read = TRUE]
    /\ pc' = [pc EXCEPT ![p] = "setup"]
    /\ lastOp' = NoOp
    /\ UNCHANGED <<build, file, sockFile, conn, lpc, role, exitCode, uiQueue,
                   showWindow, winShown, entry, leftTips, rightTips, timers,
                   menu, trunc>>

\* a main that never assigns showWindow
SetupNoShowWindow(p) ==
    /\ pc[p] = "setup"
    /\ menu' = [menu EXCEPT ![p] = rebuildTray(build, todos[p])]
    /\ pc' = [pc EXCEPT ![p] = "running"]
    /\ lastOp' = Op("startup", p, 0, <<>>, "none")
    /\ UNCHANGED <<build, file, sockFile, conn, lpc, role, exitCode, uiQueue,
                   showWindow, winShown, todos, entry, leftTips, rightTips,
                   timers, hist, trunc>>

\* main from showWindow = func() {...} to a.Run(): the window and the entry
\* are built, the tray menu is built for the first time
Setup(p) ==
    /\ pc[p] = "setup"
    /\ showWindow' = [showWindow EXCEPT ![p] = (build = "single")]
    /\ menu' = [menu EXCEPT ![p] = rebuildTray(build, todos[p])]
    /\ pc' = [pc EXCEPT ![p] = "running"]
    /\ lastOp' = Op("startup", p, 0, <<>>, "none")
    /\ UNCHANGED <<build, file, sockFile, conn, lpc, role, exitCode, uiQueue,
                   winShown, todos, entry, leftTips, rightTips, timers, hist,
                   trunc>>

\* the quit row of the tray menu: the single build removes the socket file,
\* then a.Quit()
MenuQuit(p) ==
    /\ Running(p)
    /\ IF build = "single"
       THEN /\ sockFile' = NoSock
            /\ hist' = [hist EXCEPT ![p].removed = TRUE]
       ELSE UNCHANGED <<sockFile, hist>>
    /\ pc' = [pc EXCEPT ![p] = "quitting"]
    /\ lastOp' = NoOp
    /\ UNCHANGED <<build, file, conn, lpc, role, exitCode, uiQueue, showWindow,
                   winShown, todos, entry, leftTips, rightTips, timers, menu,
                   trunc>>

\* a main without the deferred os.Remove(socketPath)
ExitKeepsSocketFile(p) ==
    /\ pc[p] = "quitting"
    /\ pc' = [pc EXCEPT ![p] = "exited"]
    /\ exitCode' = [exitCode EXCEPT ![p] = 0]
    /\ lpc' = [lpc EXCEPT ![p] = IF @ = "none" THEN @ ELSE "dead"]
    /\ memoryGone(p)
    /\ lastOp' = NoOp
    /\ UNCHANGED <<build, file, sockFile, conn, role, hist, trunc>>

\* a.Run() returns: the single build's deferred os.Remove(socketPath) runs,
\* main returns and the process is gone with all its goroutines
Exit(p) ==
    /\ pc[p] = "quitting"
    /\ IF build = "single"
       THEN sockFile' = NoSock
       ELSE UNCHANGED sockFile
    /\ pc' = [pc EXCEPT ![p] = "exited"]
    /\ exitCode' = [exitCode EXCEPT ![p] = 0]
    /\ lpc' = [lpc EXCEPT ![p] = IF @ = "none" THEN @ ELSE "dead"]
    /\ memoryGone(p)
    /\ lastOp' = NoOp
    /\ UNCHANGED <<build, file, conn, role, hist, trunc>>

(***************************************************************************)
(* The truncation functions on their own.                                  *)
(***************************************************************************)
TruncRunes == {"a", HanRune}
TruncInputs == SeqsUpTo(TruncRunes, MaxTruncLen)

TruncApply ==
    /\ trunc.pc = "in"
    /\ trunc' = [trunc EXCEPT !.pc = "out",
                              !.out = truncateByWeight(trunc.s, trunc.m),
                              !.ell = truncateByWeightWithEllipsis(trunc.s, trunc.m)]
    /\ UNCHANGED <<build, file, sockFile, conn, pc, lpc, role, exitCode, uiQueue,
                   showWindow, winShown, todos, entry, leftTips, rightTips,
                   timers, menu, hist, lastOp>>

TruncAgain ==
    /\ trunc.pc = "out"
    /\ trunc' = [trunc EXCEPT !.pc = "again",
                              !.again = truncateByWeight(trunc.out, trunc.m)]
    /\ UNCHANGED <<build, file, sockFile, conn, pc, lpc, role, exitCode, uiQueue,
                   showWindow, winShown, todos, entry, leftTips, rightTips,
                   timers, menu, hist, lastOp>>

(***************************************************************************)
(* Specifications.                                                         *)
(***************************************************************************)
InitWith(b, f, sf, t) ==
    /\ build = b
    /\ file = f
    /\ sockFile = sf
    /\ conn = [p \in Procs |-> NoConn]
    /\ pc = [p \in Procs |-> "idle"]
    /\ lpc = [p \in Procs |-> "none"]
    /\ role = [p \in Procs |-> "none"]
    /\ exitCode = [p \in Procs |-> -1]
    /\ uiQueue = [p \in Procs |-> <<>>]
    /\ showWindow = [p \in Procs |-> FALSE]
    /\ winShown = [p \in Procs |-> FALSE]
    /\ todos = [p \in Procs |-> <<>>]
    /\ entry = [p \in Procs |-> <<>>]
    /\ leftTips = [p \in Procs |-> maxWeight]
    /\ rightTips = [p \in Procs |-> "hint"]
    /\ timers = [p \in Procs |-> 0]
    /\ menu = [p \in Procs |-> <<>>]
    /\ hist = [p \in Procs |-> NoHist]
    /\ lastOp = NoOp
    /\ trunc = t

\* start-up, the guard and the window of one process
GuardNext(p) ==
    \/ Launch(p)
    \/ Dial(p)
    \/ ListenerRemove(p)
    \/ ListenerListen(p)
    \/ Load(p)
    \/ Setup(p)
    \/ MenuAddNew(p)
    \/ CloseWindow(p)
    \/ UIDispatch(p)
    \/ MenuQuit(p)
    \/ Exit(p)

\* the handlers that edit the list, the user typing texts of Texts
ListNext(p, Texts, Outcomes) ==
    \/ \E s \in Texts : EntryEdit(p, s)
    \/ \E o \in Outcomes : Submit(p, o)
    \/ \E i \in 1..(MaxTodos + 4), o \in Outcomes : RowActivate(p, i, o)
    \/ TimerFire(p)

\* the single-instance build, several launches, with or without a socket
\* file left behind by an earlier run
Init ==
    \E sf \in {NoSock, StaleSock} :
        InitWith("single", NoFile, sf, NoTrunc)

Next ==
    \/ \E p \in Procs : GuardNext(p)
    \/ \E p \in Procs : WriteShow(p)
    \/ \E p \in Procs, c \in Procs : Accept(p, c)
    \/ \E c \in Procs : Handle(c)

Spec == Init /\ [][Next]_vars

\* the single-instance build started over the socket file of a process that
\* ended without removing it
InitStale == InitWith("single", NoFile, StaleSock, NoTrunc)

SpecStale == InitStale /\ [][Next]_vars

\* The goroutines of a live process are scheduled fairly: main up to a.Run(),
\* the listener goroutine and its accept loop, the connection handlers and
\* the UI thread. What the user does (launch, menu rows, typing) is not.
Fairness ==
    /\ \A p \in Procs :
          /\ WF_vars(Dial(p)) /\ WF_vars(WriteShow(p))
          /\ WF_vars(Load(p)) /\ WF_vars(Setup(p))
          /\ WF_vars(ListenerRemove(p)) /\ WF_vars(ListenerListen(p))
          /\ WF_vars(\E c \in Procs : Accept(p, c))
          /\ WF_vars(UIDispatch(p))
          /\ WF_vars(Exit(p))
    /\ \A c \in Procs : WF_vars(Handle(c))

SpecLive == Init /\ [][Next]_vars /\ Fairness

\* one process of each build, short texts with the runes JSON escapes
ShellTexts == {<<>>, <<"a">>, <<Quote, "<">>, <<Backslash, HanRune>>}
ShellFiles ==
    {NoFile, Unreadable, FileOf(<<"[", "{">>),
     FileOf(MarshalIndent(<<Todo(<<"a">>), Todo(<<Quote, "<">>), Todo(<<"a">>)>>))}
ShellOutcomes == {"ok", "partial"}

InitShell ==
    \E b \in Builds, f \in ShellFiles : InitWith(b, f, NoSock, NoTrunc)

NextShell == GuardNext(1) \/ ListNext(1, ShellTexts, ShellOutcomes)

SpecShell == InitShell /\ [][NextShell]_vars

\* one process of each build, texts around the input budgets
InputTexts ==
    {<<>>,
     Fill("a", maxWeight - 1) \o <<HanRune>>,
     Fill(HanRune, maxWeight \div 2) \o <<"a">>,
     Fill("a", maxLen),
     Fill("a", maxLen + 1)}

InitInput == \E b \in Builds : InitWith(b, NoFile, NoSock, NoTrunc)

\* start-up, then the window is opened and texts are typed and submitted
NextInput ==
    \/ Launch(1)
    \/ Dial(1)
    \/ ListenerRemove(1)
    \/ ListenerListen(1)
    \/ Load(1)
    \/ Setup(1)
    \/ MenuAddNew(1)
    \/ \E s \in InputTexts : EntryEdit(1, s)
    \/ Submit(1, "ok")
    \/ TimerFire(1)
    \/ UIDispatch(1)

SpecInput == InitInput /\ [][NextInput]_vars

\* one process and the peers that connect to its socket and send what they
\* like, or nothing
Clients == Procs \ {1}

ClientsNext(Bytes) ==
    \/ Launch(1)
    \/ Dial(1)
    \/ ListenerRemove(1)
    \/ ListenerListen(1)
    \/ Load(1)
    \/ Setup(1)
    \/ UIDispatch(1)
    \/ MenuQuit(1)
    \/ Exit(1)
    \/ \E c \in Clients : ClientConnect(c)
    \/ \E c \in Clients, b \in Bytes : ClientSend(c, b)
    \/ \E c \in Clients : ClientClose(c)
    \/ \E c \in Clients : Accept(1, c)
    \/ \E c \in Clients : Handle(c)

\* peers that send "show", half a line, or hang
HangBytes == {ShowLine, <<"s", "h">>}

InitClients == InitWith("single", NoFile, NoSock, NoTrunc)

NextClients == ClientsNext(HangBytes)

\* the goroutines of the process are scheduled fairly; the peers and the
\* user are not. fyne.Do does not make a handler wait: that a handler with
\* "show" is held back while MaxQueue calls are queued is the bound of the
\* model, so a handler that can run again and again does run (SF).
FairnessClients ==
    /\ WF_vars(Dial(1)) /\ WF_vars(Load(1)) /\ WF_vars(Setup(1))
    /\ WF_vars(ListenerRemove(1)) /\ WF_vars(ListenerListen(1))
    /\ WF_vars(UIDispatch(1)) /\ WF_vars(Exit(1))
    /\ \A c \in Clients : WF_vars(Accept(1, c)) /\ SF_vars(Handle(c))

SpecClients == InitClients /\ [][NextClients]_vars /\ FairnessClients

\* one process of each build over each kind of todo.json, and peers that
\* send lines of all sorts
LineBytes ==
    {ShowLine,
     <<" ", "s", "h", "o", "w", "\r", Newline>>,
     <<"s", "h", "o", "w", "x", Newline>>,
     <<Newline>>}

InitLines ==
    \E b \in Builds, f \in ShellFiles : InitWith(b, f, NoSock, NoTrunc)

NextLines == ClientsNext(LineBytes) \/ CloseWindow(1)

SpecLines == InitLines /\ [][NextLines]_vars

\* the pure functions
InitTrunc ==
    \E s \in TruncInputs, m \in 0..MaxBudget :
        InitWith("single", NoFile, NoSock,
                 [pc |-> "in", s |-> s, m |-> m, out |-> <<>>, again |-> <<>>,
                  ell |-> <<>>])

NextTrunc == TruncApply \/ TruncAgain

SpecTrunc == InitTrunc /\ [][NextTrunc]_vars

(***************************************************************************)
(* Properties.                                                             *)
(***************************************************************************)
Primaries == {p \in Procs : role[p] = "primary" /\ Alive(p)}

\* the complete "show" lines of a connection that its handler has not read
RECURSIVE linesIn(_)
linesIn(buf) ==
    IF ~HasLine(buf) THEN 0
    ELSE 1 + linesIn(SubSeq(buf, Len(readLine(buf, 1)) + 1, Len(buf)))

\* C1: a process whose probe finds a bound listener is a secondary: it starts
\* no listener goroutine, never removes the socket file, never reads or
\* writes todo.json; once it has exited while its primary still runs, its
\* status is 0 and exactly one "show" line went to that primary (read by the
\* handler or still in the connection).
C1_SecondaryState ==
    \A p \in Procs :
        role[p] = "secondary" =>
            /\ lpc[p] = "none"
            /\ ~hist[p].listened /\ ~hist[p].removed
            /\ ~hist[p].read /\ ~hist[p].wrote
            /\ sockFile # p
            /\ conn[p].got + linesIn(conn[p].buf) = hist[p].sent
            /\ hist[p].sent <= 1
            /\ pc[p] = "exited" /\ exitCode[p] = 0 => hist[p].sent = 1
            /\ pc[p] = "exited" /\ Alive(conn[p].srv) =>
                   exitCode[p] = 0 /\ hist[p].sent = 1

C1_ProbeStep ==
    \A p \in Procs :
        (pc[p] = "dial" /\ pc'[p] # "dial"
            /\ \E q \in Procs : Listening(q) /\ sockFile = q)
        => /\ role'[p] = "secondary"
           /\ sockFile' = sockFile
           /\ conn'[p].srv = sockFile

\* C1: a second process launched while a listener is bound at the socket path
\* becomes a secondary (the step), and a secondary stays off the listener, the
\* socket file and todo.json, sends one "show" and exits 0 (the state).
C1_SecondInstance == []C1_SecondaryState /\ [][C1_ProbeStep]_vars

C1_Witness ==
    \E p \in Procs :
        /\ role[p] = "secondary" /\ pc[p] = "exited" /\ exitCode[p] = 0
        /\ conn[p].got = 1
        /\ Listening(conn[p].srv) /\ sockFile = conn[p].srv

\* C2: at most one process at a time has passed the single-instance check as
\* the main instance.
C2_AtMostOnePrimary == Cardinality(Primaries) <= 1

\* two primaries, each inside a.Run() with a listener of its own
TwoPrimariesServing ==
    \E p, q \in Procs :
        /\ p # q
        /\ pc[p] = "running" /\ pc[q] = "running"
        /\ lpc[p] = "accept" /\ lpc[q] = "accept"

ShowRead(p) ==
    lastOp.name = "line" /\ lastOp.p = p /\ lastOp.text = <<"s", "h", "o", "w">>

\* C3 as claimed: whenever a handler of p has read the line "show", the entry
\* window of p is eventually shown.
C3_ShowLeadsToWindow == \A p \in Procs : ShowRead(p) ~> winShown[p]

\* C3 as amended: whenever a handler of p has read the line "show", the entry
\* window of p is eventually shown, or p has taken the quit action before its
\* UI thread ran the request.
C3_ShowLeadsToWindowOrQuit ==
    \A p \in Procs :
        ShowRead(p) ~> (winShown[p] \/ pc[p] \in {"quitting", "exited"})

\* the UI thread of p has just run the activate request of a "show" line
\* that a handler of p read, and the window is shown
C3_Witness ==
    \E p \in Procs :
        /\ lastOp.name = "activate" /\ lastOp.p = p
        /\ winShown[p]
        /\ \E c \in Procs : conn[c].srv = p /\ conn[c].got = 1

\* the user's last step was a submit that the handler accepted
Added(p) ==
    /\ lastOp.name = "submit" /\ lastOp.p = p
    /\ lastOp.text # <<>>
    /\ ~(build = "simple" /\ Len(lastOp.text) > maxLen)

Deleted(p) == lastOp.name = "row" /\ lastOp.p = p

\* C4: once an add or a delete whose write succeeded has completed, the file
\* decodes without error to exactly the in-memory list, in order, and
\* loadTodos of that file returns the same list.
C4_FileMatchesList ==
    \A p \in Procs :
        (Added(p) \/ Deleted(p)) /\ lastOp.outcome = "ok" =>
            /\ file.kind = "data"
            /\ Unmarshal(file.data).ok
            /\ Unmarshal(file.data).val = todos[p]
            /\ loadTodos(file, build) = todos[p]
            /\ loadTodos(saveTodos(file, todos[p], "ok"), build) = todos[p]

\* a list of two texts with a quote, a "<", a backslash and an ideograph has
\* just been saved
C4_Witness ==
    /\ (Added(1) \/ Deleted(1)) /\ lastOp.outcome = "ok"
    /\ Len(todos[1]) = 2
    /\ {todos[1][1].Text, todos[1][2].Text} = {<<Quote, "<">>, <<Backslash, HanRune>>}

\* C5: activating the to-do row at place i of the menu (the row of entry
\* i - 2) removes exactly one entry, the first one whose text equals that
\* row's text; the other entries stay, in their order.
C5_DeleteStep ==
    \A p \in Procs :
        (lastOp'.name = "row" /\ lastOp'.p = p) =>
            LET L == todos[p]
                i == lastOp'.row
                t == menu[p][i].text
            IN /\ i - 2 \in 1..Len(L) /\ L[i - 2].Text = t
               /\ \E k \in 1..Len(L) :
                     /\ L[k].Text = t
                     /\ \A j \in 1..(k - 1) : L[j].Text # t
                     /\ todos'[p] = [j \in 1..(Len(L) - 1) |->
                                        IF j < k THEN L[j] ELSE L[j + 1]]

\* C5: every activation of a to-do row removes exactly the first entry with
\* that row's text and keeps the rest in order.
C5_DeleteFirstMatch == [][C5_DeleteStep]_vars

\* the row of the second of two equal texts was activated on [a, x, a] and
\* [x, a] is left
C5_Witness ==
    /\ lastOp.name = "row" /\ lastOp.row = 5 /\ lastOp.text = <<"a">>
    /\ Len(todos[1]) = 2
    /\ todos[1][2].Text = <<"a">> /\ todos[1][1].Text # <<"a">>

\* the weight of a text, counted rather than accumulated
weightOf(s) ==
    2 * Cardinality({i \in 1..Len(s) : s[i] \in HanRunes})
    + Cardinality({i \in 1..Len(s) : s[i] \notin HanRunes})

\* C6: truncateByWeight(s, m) is a prefix of s, made of whole runes of s, of
\* weight at most m; the rune after it, if any, would not fit (it is left out
\* whole); truncating the result again changes nothing.
C6_TruncatePrefix ==
    trunc.pc \in {"out", "again"} =>
        /\ IsPrefix(trunc.out, trunc.s)
        /\ weightOf(trunc.out) <= trunc.m
        /\ Len(trunc.out) < Len(trunc.s) =>
               weightOf(SubSeq(trunc.s, 1, Len(trunc.out) + 1)) > trunc.m
        /\ trunc.pc = "again" => trunc.again = trunc.out

\* an ideograph was left out although one unit of budget remained
C6_Witness ==
    /\ trunc.pc = "again"
    /\ Len(trunc.out) < Len(trunc.s)
    /\ trunc.s[Len(trunc.out) + 1] = HanRune
    /\ weightOf(trunc.out) = trunc.m - 1
    /\ trunc.out # <<>>

\* C7: truncateByWeightWithEllipsis(s, m) is s when s fits, and otherwise
\* truncateByWeight(s, m) followed by one ellipsis, so what stands before the
\* ellipsis has weight at most m.
C7_EllipsisAgrees ==
    trunc.pc \in {"out", "again"} =>
        /\ weightOf(trunc.s) <= trunc.m => trunc.ell = trunc.s
        /\ weightOf(trunc.s) > trunc.m =>
              /\ trunc.ell = Append(trunc.out, Ellipsis)
              /\ weightOf(Front(trunc.ell)) <= trunc.m

\* a text that does not fit was cut before an ideograph and got the ellipsis
C7_Witness ==
    /\ trunc.pc = "out"
    /\ weightOf(trunc.s) > trunc.m
    /\ Last(trunc.ell) = Ellipsis
    /\ Len(trunc.ell) > 1
    /\ trunc.s[Len(trunc.ell)] = HanRune

\* C8: from the first rebuild at start-up on, and so after every add and
\* delete, the menu is: add-new, separator, one row per to-do in list order
\* or (iff the list is empty) one placeholder, separator, quit.
C8_MenuShape ==
    \A p \in Procs :
        pc[p] \in {"running", "quitting"} =>
            LET n == Len(todos[p])
                m == menu[p]
                rows == IF n = 0 THEN 1 ELSE n
            IN /\ Len(m) = rows + 4
               /\ m[1].kind = "add" /\ m[2].kind = "separator"
               /\ m[rows + 3].kind = "separator" /\ m[rows + 4].kind = "quit"
               /\ n = 0 => m[3].kind = "placeholder"
               /\ \A i \in 1..n :
                     m[i + 2].kind = "todo" /\ m[i + 2].text = todos[p][i].Text
               /\ (\E i \in 1..Len(m) : m[i].kind = "placeholder") <=> n = 0

\* one text has just been added to an empty list
C8_Witness ==
    /\ Added(1) /\ Len(todos[1]) = 1
    /\ Len(menu[1]) = 5 /\ menu[1][3].kind = "todo"

\* C9: in the weighted builds the entry never holds, and so submit is never
\* handed, a text of weight above maxWeight, and an added to-do is the text
\* that was submitted; in the simple build a submit of more than maxLen runes
\* leaves the list and the file as they were and clears the entry.
C9_EntryWithinBudget ==
    \A p \in Procs :
        /\ Weighted(build) => weightOf(entry[p]) <= maxWeight
        /\ Weighted(build) /\ lastOp.name = "submit" /\ lastOp.p = p =>
               weightOf(lastOp.text) <= maxWeight
        /\ Added(p) =>
               /\ todos[p] # <<>> /\ Last(todos[p]).Text = lastOp.text
               /\ Weighted(build) => weightOf(Last(todos[p]).Text) <= maxWeight
               /\ build = "simple" => Len(Last(todos[p]).Text) <= maxLen

C9_RejectStep ==
    \A p \in Procs :
        (build = "simple" /\ lastOp'.name = "submit" /\ lastOp'.p = p
            /\ Len(lastOp'.text) > maxLen)
        => todos' = todos /\ file' = file /\ entry'[p] = <<>>

\* C9: no to-do added through the entry exceeds the build's input budget
\* (the clamp of the weighted builds, the rejection of the simple build).
C9_InputBudget == []C9_EntryWithinBudget /\ [][C9_RejectStep]_vars

\* a weighted build has added a text that the change handler had cut before
\* an ideograph, one unit below the budget
C9_Witness ==
    /\ Weighted(build) /\ Added(1)
    /\ Last(todos[1]).Text = Fill("a", maxWeight - 1)

\* the simple build has turned down a text of maxLen + 1 runes
C9_RejectReached ==
    /\ build = "simple" /\ lastOp.name = "submit"
    /\ Len(lastOp.text) = maxLen + 1 /\ todos[1] # <<>>

\* C10: a submit of empty text leaves the list, the file, the menu, the entry
\* text and the status message as they were.
C10_EmptySubmitStep ==
    \A p \in Procs :
        (lastOp'.name = "submit" /\ lastOp'.p = p /\ lastOp'.text = <<>>) =>
            /\ todos' = todos /\ file' = file /\ menu' = menu
            /\ entry' = entry /\ rightTips' = rightTips

\* C10: every submit of empty text is a no-op.
C10_EmptySubmitNoOp == [][C10_EmptySubmitStep]_vars

\* empty text was submitted while the list was not empty and the success
\* message was up
C10_Witness ==
    /\ lastOp.name = "submit" /\ lastOp.text = <<>>
    /\ Len(todos[1]) > 0 /\ rightTips[1] = "submitted"

\* the step in which a primary that took the quit action is gone, a.Run()
\* having returned (status 0): its listener is closed with it and no file is
\* left at the socket path
C11_QuitStep ==
    \A p \in Procs :
        (role[p] = "primary" /\ pc[p] = "quitting" /\ pc'[p] = "exited"
            /\ exitCode'[p] = 0)
        => /\ sockFile' = NoSock
           /\ lpc'[p] # "accept"
           /\ ~Alive(p)'

\* a probe that finds no file at the socket path fails, and the process goes
\* on as the main instance
C11_ProbeStep ==
    \A q \in Procs :
        (pc[q] = "dial" /\ pc'[q] # "dial" /\ sockFile = NoSock)
        => /\ role'[q] = "primary"
           /\ pc'[q] = "load"
           /\ lpc'[q] = "remove"
           /\ conn'[q] = conn[q]

\* C11: when a primary exits through the quit action its listener is closed
\* and no socket file remains, and a process that probes the path with no
\* file on it becomes the main instance, never a secondary.
C11_QuitFreesPath == [][C11_QuitStep /\ C11_ProbeStep]_vars

\* a primary has quit, and a process that probed the freed path is the new
\* primary with its listener bound
C11_Witness ==
    \E p, q \in Procs :
        /\ p # q
        /\ role[p] = "primary" /\ pc[p] = "exited" /\ exitCode[p] = 0
        /\ hist[p].listened
        /\ role[q] = "primary" /\ pc[q] = "running"
        /\ Listening(q) /\ sockFile = q
        /\ \A r \in Procs \ {p, q} : pc[r] = "idle"

\* a main instance that is running has its listener goroutine with it: on the
\* way to the bind or in the accept loop, never ended
C12_PrimaryHasListener ==
    \A p \in Procs :
        (role[p] = "primary" /\ Alive(p)) => lpc[p] \in {"remove", "listen", "accept"}

\* the step in which net.Listen fails (a file is at the path and stays
\* there): the process is gone with a non-zero status
C12_BindFailsStep ==
    \A p \in Procs :
        (Alive(p) /\ lpc[p] = "listen" /\ lpc'[p] # "listen"
            /\ sockFile # NoSock /\ sockFile' = sockFile)
        => /\ pc'[p] = "exited"
           /\ exitCode'[p] > 0
           /\ lpc'[p] # "accept"

\* C12: a failed bind of the listener ends the process with a non-zero
\* status, and no process runs as main instance with its listener goroutine
\* ended.
C12_BindFailureFatal == []C12_PrimaryHasListener /\ [][C12_BindFailsStep]_vars

\* a main instance whose bind failed on the file of another listener is gone
\* with status 1
C12_Witness ==
    \E p \in Procs :
        /\ role[p] = "primary" /\ pc[p] = "exited" /\ exitCode[p] = 1
        /\ lpc[p] = "dead" /\ ~hist[p].listened
        /\ sockFile \in Procs \ {p}

\* the process that connection c went to has exited
ServerGone(c) == conn[c].srv \in Procs /\ ~Alive(conn[c].srv)

\* the handler of connection c waits in ReadString: no complete line has
\* come and the peer has not closed
Pending(c) ==
    /\ conn[c].st = "handling" /\ conn[c].copen /\ ~HasLine(conn[c].buf)
    /\ ~ServerGone(c)

\* a complete line is on connection c, not yet read by a handler
LineWaits(c) ==
    /\ conn[c].st \in {"backlog", "handling"} /\ HasLine(conn[c].buf)

\* C13: while the handler of one connection waits for a line that does not
\* come, a complete line on any other connection to the same process is
\* eventually read by a handler of its own (and "show" is handed to the UI
\* thread), unless the process exits first. The behaviours checked include
\* those in which the first connection hangs for ever.
C13_HangingClientDoesNotBlock ==
    \A c1 \in Clients : \A c2 \in Clients \ {c1} :
        (Pending(c1) /\ LineWaits(c2) /\ conn[c2].srv = conn[c1].srv)
        ~> (\/ lastOp.name = "line" /\ lastOp.row = c2
                /\ (lastOp.text = <<"s", "h", "o", "w">> => conn[c2].got = 1)
            \/ ServerGone(c2))

\* the "show" of one connection has just been read and handed to the UI
\* thread while the handler of another connection still waits
C13_Witness ==
    \E c1 \in Clients : \E c2 \in Clients \ {c1} :
        /\ Pending(c1)
        /\ conn[c2].srv = conn[c1].srv
        /\ lastOp.name = "line" /\ lastOp.row = c2
        /\ lastOp.text = <<"s", "h", "o", "w">>
        /\ conn[c2].st = "done" /\ conn[c2].got = 1
        /\ uiQueue[conn[c2].srv] = <<"activate">>

\* todo.json is missing, cannot be read, or does not hold a JSON text
BadFile(f) ==
    \/ f = NoFile
    \/ f = Unreadable
    \/ f.kind = "data" /\ ~Unmarshal(f.data).ok

\* the step of main that calls loadTodos, over such a file: the list is
\* empty, main goes on to build the UI, nothing is written
C14_LoadStep ==
    \A p \in Procs :
        (~hist[p].read /\ hist'[p].read /\ BadFile(file))
        => /\ todos'[p] = <<>>
           /\ pc'[p] = "setup"
           /\ exitCode'[p] = exitCode[p]
           /\ file' = file

\* a process that started over such a file runs as one that started with no
\* to-dos: no exit status, the menu of the empty list
C14_StartedEmpty ==
    \A p \in Procs :
        (pc[p] = "running" /\ BadFile(file))
        => /\ todos[p] = <<>>
           /\ exitCode[p] = -1
           /\ menu[p] = rebuildTray(build, <<>>)

\* the step of a handler that read a line other than "show": window, list,
\* menu, file and the calls queued for the UI thread stay as they are
C14_OtherLineStep ==
    (lastOp'.name = "line" /\ lastOp'.text # <<"s", "h", "o", "w">>)
    => UNCHANGED <<winShown, showWindow, uiQueue, todos, menu, entry, file,
                   pc, exitCode>>

\* C14: loading a todo.json that is missing, unreadable or not JSON gives the
\* empty list and start-up goes on as usual; a line other than "show" read
\* from a connection changes neither the window nor the list nor the file.
C14_BadInputIgnored ==
    /\ []C14_StartedEmpty
    /\ [][C14_LoadStep /\ C14_OtherLineStep]_vars

\* a process that started over a file that is not JSON runs with the empty
\* list, and a handler of it has just read the line "showx"
C14_Witness ==
    /\ file = FileOf(<<"[", "{">>)
    /\ pc[1] = "running" /\ todos[1] = <<>> /\ hist[1].read
    /\ lastOp.name = "line" /\ lastOp.p = 1
    /\ lastOp.text = <<"s", "h", "o", "w", "x">>
    /\ ~winShown[1] /\ uiQueue[1] = <<>>

\* the same over a file that cannot be read, the line being empty
C14_WitnessUnreadable ==
    /\ file = Unreadable
    /\ pc[1] = "running" /\ todos[1] = <<>> /\ hist[1].read
    /\ lastOp.name = "line" /\ lastOp.text = <<>>

\* a file is at the socket path and no listener is behind it
StaleFile == sockFile # NoSock /\ ~Listening(sockFile)

\* a probe of a stale file fails: the process is the main instance and starts
\* its listener goroutine
C15_StaleProbeStep ==
    \A p \in Procs :
        (pc[p] = "dial" /\ pc'[p] # "dial" /\ StaleFile)
        => /\ role'[p] = "primary"
           /\ lpc'[p] = "remove"
           /\ pc'[p] = "load"

\* the listener goroutine's os.Remove takes the stale file away
C15_RemoveStep ==
    \A p \in Procs :
        (lpc[p] = "remove" /\ lpc'[p] = "listen" /\ StaleFile)
        => sockFile' = NoSock

\* its net.Listen on the free path binds: the file is there again, with the
\* accept loop of this process behind it
C15_BindStep ==
    \A p \in Procs :
        (lpc[p] = "listen" /\ lpc'[p] # "listen" /\ sockFile = NoSock
            /\ pc'[p] = pc[p])
        => /\ sockFile' = p
           /\ lpc'[p] = "accept"
           /\ ~StaleFile'

\* a probe made once the listener is bound succeeds: a secondary
C15_LaterProbeStep ==
    \A q \in Procs :
        (pc[q] = "dial" /\ pc'[q] # "dial" /\ Listening(sockFile))
        => /\ role'[q] = "secondary"
           /\ lpc'[q] = "none"
           /\ conn'[q].srv = sockFile
           /\ sockFile' = sockFile

\* C15: started over a stale socket file, a process fails its probe, becomes
\* the main instance, removes the file and binds a listener that works, and a
\* probe made while that listener is bound makes a secondary.
C15_StaleSocketRecovered ==
    [][C15_StaleProbeStep /\ C15_RemoveStep /\ C15_BindStep
          /\ C15_LaterProbeStep]_vars

\* after a start over a stale file: the main instance has removed it and
\* serves on the path, and a later launch was a secondary whose "show" it read
C15_Witness ==
    \E p \in Procs : \E q \in Procs \ {p} :
        /\ role[p] = "primary" /\ pc[p] = "running"
        /\ hist[p].removed /\ hist[p].listened
        /\ Listening(p) /\ sockFile = p
        /\ role[q] = "secondary" /\ pc[q] = "exited" /\ exitCode[q] = 0
        /\ conn[q].srv = p /\ conn[q].got = 1
        /\ \A r \in Procs \ {p, q} : pc[r] = "idle"

\* what a row label shows of the to-do text: the label without the checkbox
\* in front and without the ellipsis at the end
shownText(label) ==
    LET body == SubSeq(label, Len(CheckBox) + 1, Len(label)) IN
    IF body # <<>> /\ Last(body) = Ellipsis THEN Front(body) ELSE body

\* C16: in the builds with weighted truncation, the text a tray row shows
\* (between the checkbox and the ellipsis) has weight at most 20: ten
\* ideographs or twenty other characters.
C16_LabelWeightAtMost20 ==
    \A p \in Procs :
        (Weighted(build) /\ pc[p] = "running") =>
            \A i \in 1..Len(menu[p]) :
                menu[p][i].kind = "todo" =>
                    getWeight(shownText(menu[p][i].label)) <= 20

\* the same holds of the build without the single-instance guard
C16_PlainLabelWeightAtMost20 ==
    \A p \in Procs :
        (build = "weighted" /\ pc[p] = "running") =>
            \A i \in 1..Len(menu[p]) :
                menu[p][i].kind = "todo" =>
                    getWeight(shownText(menu[p][i].label)) <= 20

\* C17: as long as a main instance with a bound listener runs and has not
\* taken the quit action itself, the file at the socket path is the one its
\* listener is bound to: no other process has unlinked or replaced it.
C17_LivePrimaryKeepsPath ==
    \A p \in Procs :
        (role[p] = "primary" /\ lpc[p] = "accept"
            /\ pc[p] \in {"load", "setup", "running"})
        => sockFile = p

\* a main instance runs with its listener bound, no file is at the path, and
\* every other process is gone or not started: the next launch cannot reach it
C17_Unreachable ==
    \E p \in Procs :
        /\ role[p] = "primary" /\ lpc[p] = "accept" /\ pc[p] = "running"
        /\ sockFile = NoSock
        /\ \A q \in Procs \ {p} : ~Alive(q)

=============================================================================
